---------------------------- MODULE Spec2Model ----------------------------
(***************************************************************************)
(* PureVision: chroma-key background removal for icons.                    *)
(*                                                                         *)
(*   src/utils/imageProcessing.ts  getColorDistance, detectBackgroundColor,*)
(*                                 makeTransparent                         *)
(*   src/unnamed/part_000          the App component with the manual       *)
(*                                 erase (mask overlay) mode               *)
(*                                                                         *)
(* Three specifications share the variables below:                         *)
(*   SpecCompositor  makeTransparent applied in place to a canvas          *)
(*   SpecDetector    detectBackgroundColor applied to a raster             *)
(*   Spec            the App component's event handlers and image loads    *)
(***************************************************************************)
EXTENDS Integers, Sequences, FiniteSets, TLC

VARIABLES
    \* ---- the canvas the pure functions of imageProcessing.ts act on ----
    srcRaster,      \* the raster drawn on the canvas before any pass
    ctxRaster,      \* the ImageData last put on the canvas (ctx)
    prevRaster,     \* the ImageData the latest pass read from the canvas
    earlierRaster,  \* the ImageData the pass before the latest one wrote
    premultiplied,  \* whether the canvas stores its pixels premultiplied
    mtArgs,         \* the arguments given to makeTransparent
    passes,         \* number of makeTransparent passes applied so far
    detected,       \* the result of detectBackgroundColor, or NoColor
    \* ---- the App component (src/unnamed/part_000) ----
    image,          \* useState<ImageDataState | null>
    options,        \* useState<ProcessingOptions>
    isProcessing,   \* useState(false)
    isAiUpscaling,  \* useState(false)
    isEditMode,     \* useState(false)
    isDrawing,      \* useState(false)
    cursorPos,      \* useState({x, y, visible})
    maskCanvas,     \* maskCanvasRef.current: its size and the discs filled
    originalImgRef, \* originalImgRef.current: the last image processed
    loads,          \* image loads in flight, in the order they were started
    ai              \* the runAiUpscale call in flight, and how the last ended

pureVars == <<srcRaster, ctxRaster, prevRaster, earlierRaster, premultiplied,
              mtArgs, passes, detected>>
appVars  == <<image, options, isProcessing, isAiUpscaling, isEditMode,
              isDrawing, cursorPos, maskCanvas, originalImgRef, loads, ai>>
vars     == <<pureVars, appVars>>

----------------------------------------------------------------------------
(* Bounds of the model.                                                    *)

\* channel values of the rasters and colours drawn as inputs are 0..MaxChan
MaxChan == 2
\* tolerance is drawn from 0..MaxTol
MaxTol == 2
\* smoothness is drawn from 0..MaxSmooth
MaxSmooth == 2
\* makeTransparent is applied at most MaxPasses times to one canvas
MaxPasses == 2

\* Uint8ClampedArray: the largest value of a channel (fully opaque alpha)
ByteMax == 255

Chan == 0..MaxChan
Byte == 0..ByteMax

NoColor == [none |-> TRUE]
null == [null |-> TRUE]

----------------------------------------------------------------------------
(* types.ts (appended to imageProcessing.ts): RGBColor, and an RGBA pixel  *)
(* of ImageData.data.                                                      *)

RGBColor(r, g, b) == [r |-> r, g |-> g, b |-> b]
Pixel(r, g, b, a) == [r |-> r, g |-> g, b |-> b, a |-> a]

\* the colours of the input domain
Colors == {RGBColor(r, g, b) : r \in Chan, g \in Chan, b \in Chan}
\* the target colours of the input domain: the greys
TargetColors == {RGBColor(c, c, c) : c \in Chan}

\* A raster: width x height pixels, row-major, origin top-left.
Raster(w, h, data) == [width |-> w, height |-> h, data |-> data]

\* ctx.getImageData(x, y, 1, 1).data for a position inside the raster
getImageData(raster, x, y) == raster.data[y * raster.width + x + 1]

Sq(x) == x * x

Max(a, b) == IF a >= b THEN a ELSE b
Min(a, b) == IF a <= b THEN a ELSE b

\* getColorDistance returns sqrt(DistSq); the model keeps the square, an
\* integer, and compares it with the squares of the (non-negative) bounds.
getColorDistanceSq(c1, c2) ==
    Sq(c1.r - c2.r) + Sq(c1.g - c2.g) + Sq(c1.b - c2.b)

\* distance <= bound, for a non-negative integer bound
DistanceLeqNoSqrt(distSq, bound) == distSq <= bound
DistanceLeq(distSq, bound) == distSq <= Sq(bound)

\* Math.max(smoothness, 1)
smoothRangeNoCoercion(smoothness) == smoothness
smoothRange(smoothness) == Max(smoothness, 1)

\* the integer part of sqrt(n), found by bisection of lo..hi
RECURSIVE isqrtIn(_, _, _)
isqrtIn(n, lo, hi) ==
    IF lo >= hi THEN lo
    ELSE LET mid == (lo + hi + 1) \div 2
         IN  IF Sq(mid) <= n THEN isqrtIn(n, mid, hi)
                             ELSE isqrtIn(n, lo, mid - 1)

\* the integer part of sqrt(n); 46340 is the largest integer whose square is
\* a 32-bit integer
isqrt(n) == isqrtIn(n, 0, 46340)

\* The ramp value is the real number
\*   y = ((sqrt(distSq) - tolerance) / range) * 255,   0 < y <= 255.
\* rampFloor is its integer part: floor((255 * sqrt(distSq) - 255 * tolerance)
\* / range), where 255 * sqrt(distSq) may be replaced by its integer part
\* since 255 * tolerance and range are integers.
rampFloor(distSq, tolerance, range) ==
    (isqrt(Sq(ByteMax) * distSq) - ByteMax * tolerance)
        \div range

\* data[i + 3] = Math.min(255, Math.max(0, alpha)): the store in a
\* Uint8ClampedArray rounds y to the nearest integer, ties to even.
rampAlphaInverted(distSq, tolerance, range) ==
    ByteMax - rampFloor(distSq, tolerance, range)
rampAlphaWrongDivisor(distSq, tolerance, range) ==
    rampFloor(distSq, tolerance, tolerance + range)
rampAlpha(distSq, tolerance, range) ==
    LET f == rampFloor(distSq, tolerance, range)
        \* y compared with f + 1/2, both doubled and squared
        half == Sq((2 * f + 1) * range + 2 * ByteMax * tolerance)
        val == Sq(2 * ByteMax) * distSq
    IN  Min(ByteMax,
            Max(0, IF val > half THEN f + 1
                   ELSE IF val < half THEN f
                   ELSE IF f % 2 = 0 THEN f ELSE f + 1))

\* the alpha makeTransparent stores for one pixel
pixelAlphaKeepsOpaque(pixel, targetColor, tolerance, smoothness) ==
    LET range == smoothRange(smoothness)
        distSq == getColorDistanceSq(pixel, targetColor)
    IN  IF DistanceLeq(distSq, tolerance) THEN 0
        ELSE IF DistanceLeq(distSq, tolerance + range)
             THEN rampAlpha(distSq, tolerance, range)
        ELSE pixel.a
pixelAlpha(pixel, targetColor, tolerance, smoothness) ==
    LET range == smoothRange(smoothness)
        distSq == getColorDistanceSq(pixel, targetColor)
    IN  IF DistanceLeq(distSq, tolerance) THEN 0
        ELSE IF DistanceLeq(distSq, tolerance + range)
             THEN rampAlpha(distSq, tolerance, range)
        ELSE ByteMax

\* the loop body: data[i + 3] is rewritten, data[i .. i + 2] are only read
rewritePixel(pixel, targetColor, tolerance, smoothness) ==
    [pixel EXCEPT !.a = pixelAlpha(pixel, targetColor, tolerance, smoothness)]

\* makeTransparent's loop (lines 49-73) over the ImageData that
\* ctx.getImageData returned: every pixel rewritten.  The result is the
\* array handed to ctx.putImageData.
makeTransparent(raster, targetColor, tolerance, smoothness) ==
    [raster EXCEPT !.data =
        [i \in 1..Len(raster.data) |->
            rewritePixel(raster.data[i], targetColor, tolerance, smoothness)]]

\* Math.round(sum / samples.length): the nearest integer, halves upwards
roundDivTruncating(sum, n) == sum \div n
roundDiv(sum, n) == (2 * sum + n) \div (2 * n)

\* One channel of a pixel put with alpha a on a canvas that stores
\* premultiplied pixels: the canvas keeps c * a / 255, rounded to the
\* nearest integer (2 * c * a is even and 255 odd, so there is no tie).
storedChannel(c, a) == roundDiv(c * a, ByteMax)

\* The values getImageData may return for a stored channel p of a pixel
\* with alpha a: p * 255 / a rounded to the nearest integer.  An opaque
\* pixel comes back as it was put, a fully transparent one as 0 whatever
\* its colour was.  Where the quotient lies halfway between two integers
\* the result is the doing of the browser's floating-point conversion and
\* either neighbour may come back.
readChannel(p, a) ==
    IF a = 0 THEN {0}
    ELSE LET n == p * ByteMax
             below == n \div a
         IN  IF 2 * (n % a) = a THEN {below, below + 1}
             ELSE {roundDiv(n, a)}

\* the pixels a premultiplied canvas may hand back for a pixel put on it
readPixel(px) ==
    {Pixel(r, g, b, px.a) :
        r \in readChannel(storedChannel(px.r, px.a), px.a),
        g \in readChannel(storedChannel(px.g, px.a), px.a),
        b \in readChannel(storedChannel(px.b, px.a), px.a)}

\* ctx.putImageData(imageData, 0, 0) (line 75) followed by
\* ctx.getImageData(0, 0, width, height) (line 43): the rasters a canvas
\* may hand back of the raster put on it.  Whether the backing store is
\* premultiplied is the browser's choice; the source does not fix it.
putThenGetImageData(raster, premul) ==
    IF premul
    THEN LET n == Len(raster.data)
             pixels == UNION {readPixel(raster.data[i]) : i \in 1..n}
         IN  {[raster EXCEPT !.data = data] :
                data \in {d \in [1..n -> pixels] :
                            \A i \in 1..n : d[i] \in readPixel(raster.data[i])}}
    ELSE {raster}

\* the raster is one the canvas hands back as it is: on a premultiplied
\* canvas, every pixel is one of those read back for itself
canvasHolds(raster, premul) ==
    premul => \A i \in 1..Len(raster.data) :
                  raster.data[i] \in readPixel(raster.data[i])

\* the five sampled pixels
detectSamplesCornersOnly(raster) ==
    LET w == raster.width
        h == raster.height
    IN  << getImageData(raster, 0, 0),
           getImageData(raster, w - 1, 0),
           getImageData(raster, 0, h - 1),
           getImageData(raster, w - 1, h - 1),
           getImageData(raster, 0, 0) >>
detectSamples(raster) ==
    LET w == raster.width
        h == raster.height
    IN  << getImageData(raster, 0, 0),
           getImageData(raster, w - 1, 0),
           getImageData(raster, 0, h - 1),
           getImageData(raster, w - 1, h - 1),
           getImageData(raster, w \div 2, 0) >>

RECURSIVE SumChannel(_, _, _)
SumChannel(samples, ch, n) ==
    IF n = 0 THEN 0 ELSE samples[n][ch] + SumChannel(samples, ch, n - 1)

detectBackgroundColor(raster) ==
    LET samples == detectSamples(raster)
        n == Len(samples)
    IN  RGBColor(roundDiv(SumChannel(samples, "r", n), n),
                 roundDiv(SumChannel(samples, "g", n), n),
                 roundDiv(SumChannel(samples, "b", n), n))

----------------------------------------------------------------------------
(* The App component after construction (src/unnamed/part_000 lines 8-26). *)

DefaultTolerance == 20
DefaultSmoothness == 30
DefaultBrushSize == 20
\* a canvas element that was never sized is 300 x 150
DefaultCanvasWidth == 300
DefaultCanvasHeight == 150
\* the first cursorPos, off screen
CursorOffscreen == -100

\* no runAiUpscale call has been made
AiIdle == [stage |-> "idle", opts |-> null, calls |-> 0, alerts |-> 0,
           outcome |-> "none"]

AppInit ==
    /\ image = null
    /\ options = [tolerance |-> DefaultTolerance,
                  smoothness |-> DefaultSmoothness,
                  targetColor |-> RGBColor(ByteMax, ByteMax, ByteMax),
                  autoDetect |-> TRUE,
                  brushSize |-> DefaultBrushSize]
    /\ isProcessing = FALSE
    /\ isAiUpscaling = FALSE
    /\ isEditMode = FALSE
    /\ isDrawing = FALSE
    /\ cursorPos = [x |-> CursorOffscreen, y |-> CursorOffscreen,
                    visible |-> FALSE]
    /\ maskCanvas = [width |-> DefaultCanvasWidth,
                     height |-> DefaultCanvasHeight, strokes |-> <<>>]
    /\ originalImgRef = null
    /\ loads = <<>>
    /\ ai = AiIdle

----------------------------------------------------------------------------
(* The environment of the App component: the image files a user can pick,  *)
(* the layout of the displayed image and the pointer positions.            *)

\* strokes held by the mask canvas are capped at MaxStrokes
MaxStrokes == 2
\* image loads in flight are capped at MaxLoads
MaxLoads == 2

\* the image file a user picks: its object URL.  ("b" below is a second
\* image, of another size and layout.)
Urls == {"a"}

\* img.width, img.height of the decoded file
NaturalWidth(url) == IF url = "a" THEN 200 ELSE 300
NaturalHeight(url) == IF url = "a" THEN 200 ELSE 100
\* the preview pane (line 308): padding p-6, min-h-[400px], the image
\* centred in both directions; the width of its content box is the
\* layout's, taken to be 150
PanePadding == 24
PaneMinHeight == 400
PaneContentWidth == 150
\* displayImgRef.current.getBoundingClientRect(): the image (line 319,
\* max-w-full, no size of its own) is shown as wide as it is, or as wide
\* as the pane's content box when it is wider, at its own aspect ratio
DisplayWidth(url) == Min(NaturalWidth(url), PaneContentWidth)
DisplayHeight(url) ==
    (NaturalHeight(url) * DisplayWidth(url)) \div NaturalWidth(url)
\* containerRect.height: the pane grows with an image taller than its
\* minimum height allows
PaneHeight(url) ==
    Max(PaneMinHeight, DisplayHeight(url) + 2 * PanePadding)
\* imgRect.left - containerRect.left, imgRect.top - containerRect.top
ImageLeft(url) ==
    PanePadding + (PaneContentWidth - DisplayWidth(url)) \div 2
ImageTop(url) == (PaneHeight(url) - DisplayHeight(url)) \div 2

\* the pixel of an image file at (x, y): a dark square icon on a light
\* background ("a"), a light bar on a dark background ("b")
ImagePixel(url, x, y) ==
    IF url = "a"
    THEN IF x \in 50..149 /\ y \in 50..149
         THEN Pixel(30, 60, 90, ByteMax) ELSE Pixel(250, 251, 252, ByteMax)
    ELSE IF y \in 0..9
         THEN Pixel(200, 200, 200, ByteMax) ELSE Pixel(10, 20, 33, ByteMax)

\* ctx.drawImage(img, 0, 0) on the canvas sized to the image
ImageRaster(url) ==
    LET w == NaturalWidth(url)
        h == NaturalHeight(url)
    IN  Raster(w, h, [i \in 1..(w * h) |->
                         ImagePixel(url, (i - 1) % w, (i - 1) \div w)])

\* pointer positions relative to the displayed image's top-left corner,
\* <<clientX - imgRect.left, clientY - imgRect.top>>: one on the displayed
\* image, one to the left of it
PointerPoints == {<<100, 50>>, <<-5, 20>>}

\* the values the brush slider is moved to (min 5, default 20)
MinBrushSize == 5
BrushSizes == {MinBrushSize, DefaultBrushSize}

\* the values the tolerance slider is moved to (min 0, default 20)
MinTolerance == 0
Tolerances == {MinTolerance, DefaultTolerance}

\* the values the smoothness slider is moved to (min 0, default 30)
MinSmoothness == 0
Smoothnesses == {MinSmoothness, DefaultSmoothness}

\* the image the AI service returns, as a data URL
AiUrls == {"b"}

----------------------------------------------------------------------------
(* Numbers: the coordinates handed to ctx.arc are quotients.               *)

Abs(x) == IF x < 0 THEN -x ELSE x

RECURSIVE GCD(_, _)
GCD(m, n) == IF n = 0 THEN m ELSE GCD(n, m % n)

\* the quotient num / den (den > 0) in lowest terms
Quot(num, den) ==
    LET g == GCD(Abs(num), den)
    IN  [num |-> num \div g, den |-> den \div g]

----------------------------------------------------------------------------
(* The App component's handlers (src/unnamed/part_000).  A handler reads   *)
(* the state of the render it was created in, the unprimed variables; the  *)
(* setState calls it makes show in the next render, the primed ones.       *)

\* initMaskCanvas(width, height): the canvas resized and cleared
initMaskCanvas(width, height) ==
    [width |-> width, height |-> height, strokes |-> <<>>]

RemoveAt(seq, i) == SubSeq(seq, 1, i - 1) \o SubSeq(seq, i + 1, Len(seq))

\* the options a pending onload closes over: the fields it reads
Snapshot(opts) ==
    [tolerance |-> opts.tolerance, smoothness |-> opts.smoothness,
     targetColor |-> opts.targetColor, autoDetect |-> opts.autoDetect]

\* processImage up to img.src = url: an image load in flight.  explicit
\* tells whether imgUrl was given.  late tells whether a pass that was
\* asked for after this one has already completed; the code keeps no such
\* mark.
ProcessLoad(url, opts, explicit) ==
    [kind |-> "process", url |-> url, opts |-> Snapshot(opts),
     explicit |-> explicit, late |-> FALSE]

\* processImage() as handleMouseMove calls it after ctx.fill(): the load in
\* flight, with the disc whose painting asked for it
PaintLoad(url, opts, disc) ==
    [kind |-> "process", url |-> url, opts |-> Snapshot(opts),
     explicit |-> FALSE, late |-> FALSE, disc |-> disc]

\* handleFileUpload up to img.src = url: the file's load in flight; its
\* onload closes over the options of this render.  The file input is
\* rendered while there is no image.
HandleFileUpload(url) ==
    /\ image = null
    /\ Len(loads) < MaxLoads
    /\ loads' = Append(loads, [kind |-> "file", url |-> url,
                               opts |-> Snapshot(options),
                               explicit |-> TRUE])
    /\ UNCHANGED <<pureVars, ai>>
    /\ UNCHANGED <<image, options, isProcessing, isAiUpscaling, isEditMode,
                   isDrawing, cursorPos, maskCanvas, originalImgRef>>

\* img.onload of handleFileUpload: initMaskCanvas, then
\* processImage(url, {...options, autoDetect: true}), which starts a load
FileLoaded(i) ==
    /\ i \in 1..Len(loads)
    /\ loads[i].kind = "file"
    /\ LET ld == loads[i]
       IN  /\ maskCanvas' = initMaskCanvas(NaturalWidth(ld.url),
                                           NaturalHeight(ld.url))
           /\ isProcessing' = TRUE
           /\ loads' = Append(RemoveAt(loads, i),
                              ProcessLoad(ld.url,
                                          [ld.opts EXCEPT !.autoDetect = TRUE],
                                          TRUE))
    /\ UNCHANGED <<pureVars, ai>>
    /\ UNCHANGED <<image, options, isAiUpscaling, isEditMode, isDrawing,
                   cursorPos, originalImgRef>>

\* the image composited by one pass, as processedUrl encodes it: the source
\* drawn, the mask canvas drawn over it, and makeTransparent's arguments
Composite(url, mask, target, opts) ==
    [source |-> url, mask |-> mask, targetColor |-> target,
     tolerance |-> opts.tolerance, smoothness |-> opts.smoothness]

\* the alpha makeTransparent gives, in the pass encoded by composite, to a
\* pixel that a disc of the given colour covers on the canvas
CompositeAlpha(color, composite) ==
    pixelAlpha(Pixel(color.r, color.g, color.b, ByteMax),
               composite.targetColor, composite.tolerance,
               composite.smoothness)

\* const opts = currentOptions || options (line 38), read by img.onload:
\* the options handed to processImage or those of the render that called
\* it, not those current when the load completes
PassOpts(snapshot, current) == snapshot

\* the loads in flight once the pass of loads[i] has completed: the passes
\* asked for before it (the sequence is in the order of the calls) and
\* still loading have been overtaken
Overtaken(ls, i) ==
    [k \in 1..(Len(ls) - 1) |->
        IF k < i /\ ls[k].kind = "process"
        THEN [ls[k] EXCEPT !.late = TRUE]
        ELSE RemoveAt(ls, i)[k]]

\* img.onload of processImage (lines 50-86)
ProcessLoaded(i) ==
    /\ i \in 1..Len(loads)
    /\ loads[i].kind = "process"
    /\ LET ld == [loads[i] EXCEPT !.opts = PassOpts(@, options)]
           detect == ld.opts.autoDetect /\ ~ld.explicit
           target == IF detect THEN detectBackgroundColor(ImageRaster(ld.url))
                     ELSE ld.opts.targetColor
       IN  /\ originalImgRef' = [src |-> ld.url]
           /\ options' = IF detect THEN [options EXCEPT !.targetColor = target]
                         ELSE options
           /\ image' = [originalUrl |-> ld.url,
                        processedUrl |-> Composite(ld.url, maskCanvas,
                                                   target, ld.opts),
                        width |-> NaturalWidth(ld.url),
                        height |-> NaturalHeight(ld.url)]
           /\ isProcessing' = FALSE
           /\ loads' = Overtaken(loads, i)
    /\ UNCHANGED <<pureVars, ai>>
    /\ UNCHANGED <<isAiUpscaling, isEditMode, isDrawing, cursorPos,
                   maskCanvas>>

\* a load that fails: neither handler sets onerror
LoadFailed(i) ==
    /\ i \in 1..Len(loads)
    /\ loads' = RemoveAt(loads, i)
    /\ UNCHANGED <<pureVars, ai>>
    /\ UNCHANGED <<image, options, isProcessing, isAiUpscaling, isEditMode,
                   isDrawing, cursorPos, maskCanvas, originalImgRef>>

\* relX >= 0 && relX <= imgRect.width && relY >= 0 && relY <= imgRect.height
InsideImageNoLowerBound(relX, relY, rectWidth, rectHeight) ==
    relX <= rectWidth /\ relY <= rectHeight
InsideImage(relX, relY, rectWidth, rectHeight) ==
    relX >= 0 /\ relX <= rectWidth /\ relY >= 0 /\ relY <= rectHeight

\* the disc ctx.arc(x, y, (brushSize * scaleX) / 2, 0, 2 pi) and ctx.fill()
\* paint, with scaleX = canvas.width / imgRect.width,
\* scaleY = canvas.height / imgRect.height, x = relX * scaleX,
\* y = relY * scaleY
PaintedDiscUnscaledRadius(relX, relY, rectWidth, rectHeight, canvas, opts) ==
    [x |-> Quot(relX * canvas.width, rectWidth),
     y |-> Quot(relY * canvas.height, rectHeight),
     radius |-> Quot(opts.brushSize, 2),
     color |-> opts.targetColor]
PaintedDisc(relX, relY, rectWidth, rectHeight, canvas, opts) ==
    [x |-> Quot(relX * canvas.width, rectWidth),
     y |-> Quot(relY * canvas.height, rectHeight),
     radius |-> Quot(opts.brushSize * canvas.width, 2 * rectWidth),
     color |-> opts.targetColor]

\* handleMouseMove(e) as called in a render whose isDrawing is drawing.
\* The pane and the displayed image exist while there is an image.  The
\* code paints without limit; the model follows it up to MaxStrokes strokes
\* on the overlay and MaxLoads loads in flight.
HandleMouseMove(p, drawing) ==
    IF ~isEditMode \/ image = null
    THEN UNCHANGED <<cursorPos, maskCanvas, isProcessing, loads>>
    ELSE LET rectWidth == DisplayWidth(image.originalUrl)
             rectHeight == DisplayHeight(image.originalUrl)
         IN  /\ cursorPos' = [x |-> p[1] + ImageLeft(image.originalUrl),
                              y |-> p[2] + ImageTop(image.originalUrl),
                              visible |-> TRUE]
             /\ IF drawing /\ InsideImage(p[1], p[2], rectWidth, rectHeight)
                THEN /\ Len(maskCanvas.strokes) < MaxStrokes
                     /\ Len(loads) < MaxLoads
                     /\ maskCanvas' =
                          [maskCanvas EXCEPT !.strokes =
                              Append(@, PaintedDisc(p[1], p[2], rectWidth,
                                                    rectHeight, maskCanvas,
                                                    options))]
                     \* processImage()
                     /\ isProcessing' = TRUE
                     /\ loads' = Append(loads,
                          PaintLoad(image.originalUrl, options,
                                    PaintedDisc(p[1], p[2], rectWidth,
                                                rectHeight, maskCanvas,
                                                options)))
                ELSE UNCHANGED <<maskCanvas, isProcessing, loads>>

\* onMouseMove of the preview pane, rendered while there is an image
MouseMove(p) ==
    /\ image # null
    /\ HandleMouseMove(p, isDrawing)
    /\ UNCHANGED <<pureVars, ai>>
    /\ UNCHANGED <<image, options, isAiUpscaling, isEditMode, isDrawing,
                   originalImgRef>>

\* onMouseDown: startDrawing.  setIsDrawing(true) shows in the next render;
\* the handleMouseMove it calls is this render's, and reads this render's
\* isDrawing.
MouseDown(p) ==
    /\ image # null
    /\ IF ~isEditMode \/ originalImgRef = null
       THEN UNCHANGED <<isDrawing, cursorPos, maskCanvas, isProcessing, loads>>
       ELSE /\ isDrawing' = TRUE
            /\ HandleMouseMove(p, isDrawing)
    /\ UNCHANGED <<pureVars, ai>>
    /\ UNCHANGED <<image, options, isAiUpscaling, isEditMode, originalImgRef>>

\* onMouseUp: stopDrawing
MouseUp ==
    /\ image # null
    /\ isDrawing' = FALSE
    /\ UNCHANGED <<pureVars, ai>>
    /\ UNCHANGED <<image, options, isProcessing, isAiUpscaling, isEditMode,
                   cursorPos, maskCanvas, originalImgRef, loads>>

\* onMouseLeave: stopDrawing and the cursor indicator hidden
MouseLeave ==
    /\ image # null
    /\ isDrawing' = FALSE
    /\ cursorPos' = [cursorPos EXCEPT !.visible = FALSE]
    /\ UNCHANGED <<pureVars, ai>>
    /\ UNCHANGED <<image, options, isProcessing, isAiUpscaling, isEditMode,
                   maskCanvas, originalImgRef, loads>>

\* onMouseEnter: in edit mode the cursor indicator shown
MouseEnter ==
    /\ image # null
    /\ cursorPos' = IF isEditMode THEN [cursorPos EXCEPT !.visible = TRUE]
                    ELSE cursorPos
    /\ UNCHANGED <<pureVars, ai>>
    /\ UNCHANGED <<image, options, isProcessing, isAiUpscaling, isEditMode,
                   isDrawing, maskCanvas, originalImgRef, loads>>

\* the edit mode switch: setIsEditMode(!isEditMode), nothing else
ToggleEditModeInitialisingMask ==
    /\ isEditMode' = ~isEditMode
    /\ maskCanvas' = IF image # null /\ ~isEditMode
                     THEN initMaskCanvas(image.width, image.height)
                     ELSE maskCanvas
    /\ UNCHANGED <<pureVars, ai>>
    /\ UNCHANGED <<image, options, isProcessing, isAiUpscaling, isDrawing,
                   cursorPos, originalImgRef, loads>>
ToggleEditMode ==
    /\ isEditMode' = ~isEditMode
    /\ UNCHANGED <<pureVars, ai>>
    /\ UNCHANGED <<image, options, isProcessing, isAiUpscaling, isDrawing,
                   cursorPos, maskCanvas, originalImgRef, loads>>

\* the brush slider, rendered in edit mode
SetBrushSize(size) ==
    /\ isEditMode
    /\ options' = [options EXCEPT !.brushSize = size]
    /\ UNCHANGED <<pureVars, ai>>
    /\ UNCHANGED <<image, isProcessing, isAiUpscaling, isEditMode, isDrawing,
                   cursorPos, maskCanvas, originalImgRef, loads>>

\* processImage() called by a handler: nothing without an image, else
\* setIsProcessing(true) and a load of image.originalUrl with this render's
\* options
ProcessImageNoArgs ==
    IF image = null
    THEN UNCHANGED <<isProcessing, loads>>
    ELSE /\ Len(loads) < MaxLoads
         /\ isProcessing' = TRUE
         /\ loads' = Append(loads,
                            ProcessLoad(image.originalUrl, options, FALSE))

\* the reset-strokes button, rendered in edit mode
ResetStrokes ==
    /\ isEditMode
    /\ maskCanvas' = IF image # null
                     THEN initMaskCanvas(image.width, image.height)
                     ELSE maskCanvas
    /\ ProcessImageNoArgs
    /\ UNCHANGED <<pureVars, ai>>
    /\ UNCHANGED <<image, options, isAiUpscaling, isEditMode, isDrawing,
                   cursorPos, originalImgRef>>

\* the refresh button (handleApplySettings), disabled without an image and
\* while processing
ApplySettings ==
    /\ image # null
    /\ ~isProcessing
    /\ ProcessImageNoArgs
    /\ UNCHANGED <<pureVars, ai>>
    /\ UNCHANGED <<image, options, isAiUpscaling, isEditMode, isDrawing,
                   cursorPos, maskCanvas, originalImgRef>>

\* the clear button: setImage(null)
ClearCanvas ==
    /\ image # null
    /\ image' = null
    /\ UNCHANGED <<pureVars, ai>>
    /\ UNCHANGED <<options, isProcessing, isAiUpscaling, isEditMode,
                   isDrawing, cursorPos, maskCanvas, originalImgRef, loads>>

\* the tolerance slider
SetTolerance(t) ==
    /\ options' = [options EXCEPT !.tolerance = t]
    /\ UNCHANGED <<pureVars, ai>>
    /\ UNCHANGED <<image, isProcessing, isAiUpscaling, isEditMode, isDrawing,
                   cursorPos, maskCanvas, originalImgRef, loads>>

\* the smoothness slider: setOptions({...options, smoothness})
SetSmoothness(sm) ==
    /\ options' = [options EXCEPT !.smoothness = sm]
    /\ UNCHANGED <<pureVars, ai>>
    /\ UNCHANGED <<image, isProcessing, isAiUpscaling, isEditMode, isDrawing,
                   cursorPos, maskCanvas, originalImgRef, loads>>

\* the AI button, disabled without an image and while isAiUpscaling:
\* runAiUpscale up to its first await.  The continuation closes over the
\* options of this render.
RunAiUpscale ==
    /\ image # null
    /\ ~isAiUpscaling
    /\ isAiUpscaling' = TRUE
    /\ ai' = [stage |-> "pending", opts |-> Snapshot(options), calls |-> 0,
              alerts |-> 0, outcome |-> "none"]
    /\ UNCHANGED pureVars
    /\ UNCHANGED <<image, options, isProcessing, isEditMode, isDrawing,
                   cursorPos, maskCanvas, originalImgRef, loads>>

\* the image fetched and read: ai.models.generateContent is called
AiServiceCalled ==
    /\ ai.stage = "pending"
    /\ ai.calls = 0
    /\ ai' = [ai EXCEPT !.calls = 1]
    /\ UNCHANGED pureVars
    /\ UNCHANGED <<image, options, isProcessing, isAiUpscaling, isEditMode,
                   isDrawing, cursorPos, maskCanvas, originalImgRef, loads>>

\* a catch block that drops the displayed image when the request fails
\* (not what the code does)
AiThrowsClearingImage ==
    /\ ai.stage = "pending"
    /\ ai' = [AiIdle EXCEPT !.calls = ai.calls, !.alerts = 1,
                            !.outcome = "threw"]
    /\ isAiUpscaling' = FALSE
    /\ image' = null
    /\ UNCHANGED pureVars
    /\ UNCHANGED <<options, isProcessing, isEditMode, isDrawing,
                   cursorPos, maskCanvas, originalImgRef, loads>>

\* an await of the try block rejects (the fetch, or the service call):
\* catch alerts, finally clears isAiUpscaling
AiThrows ==
    /\ ai.stage = "pending"
    /\ ai' = [AiIdle EXCEPT !.calls = ai.calls, !.alerts = 1,
                            !.outcome = "threw"]
    /\ isAiUpscaling' = FALSE
    /\ UNCHANGED pureVars
    /\ UNCHANGED <<image, options, isProcessing, isEditMode, isDrawing,
                   cursorPos, maskCanvas, originalImgRef, loads>>

\* the service answers without an inlineData part: newImageUrl stays '',
\* the if is skipped, finally clears isAiUpscaling
AiNoImage ==
    /\ ai.stage = "pending"
    /\ ai.calls = 1
    /\ ai' = [AiIdle EXCEPT !.calls = ai.calls, !.outcome = "noImage"]
    /\ isAiUpscaling' = FALSE
    /\ UNCHANGED pureVars
    /\ UNCHANGED <<image, options, isProcessing, isEditMode, isDrawing,
                   cursorPos, maskCanvas, originalImgRef, loads>>

\* the service answers with an image: tempImg.src = newImageUrl, the load
\* in flight; finally clears isAiUpscaling
AiImage(url) ==
    /\ ai.stage = "pending"
    /\ ai.calls = 1
    /\ Len(loads) < MaxLoads
    /\ loads' = Append(loads, [kind |-> "ai", url |-> url, opts |-> ai.opts,
                               explicit |-> TRUE])
    /\ ai' = [AiIdle EXCEPT !.calls = ai.calls, !.outcome = "image"]
    /\ isAiUpscaling' = FALSE
    /\ UNCHANGED pureVars
    /\ UNCHANGED <<image, options, isProcessing, isEditMode, isDrawing,
                   cursorPos, maskCanvas, originalImgRef>>

\* tempImg.onload of runAiUpscale: initMaskCanvas, then
\* processImage(newImageUrl, {...options, autoDetect: true})
AiImageLoaded(i) ==
    /\ i \in 1..Len(loads)
    /\ loads[i].kind = "ai"
    /\ LET ld == loads[i]
       IN  /\ maskCanvas' = initMaskCanvas(NaturalWidth(ld.url),
                                           NaturalHeight(ld.url))
           /\ isProcessing' = TRUE
           /\ loads' = Append(RemoveAt(loads, i),
                              ProcessLoad(ld.url,
                                          [ld.opts EXCEPT !.autoDetect = TRUE],
                                          TRUE))
    /\ UNCHANGED <<pureVars, ai>>
    /\ UNCHANGED <<image, options, isAiUpscaling, isEditMode, isDrawing,
                   cursorPos, originalImgRef>>

\* the pure-function canvas is not part of the App
PureIdle ==
    /\ srcRaster = Raster(1, 1, <<Pixel(0, 0, 0, ByteMax)>>)
    /\ ctxRaster = srcRaster
    /\ prevRaster = srcRaster
    /\ earlierRaster = srcRaster
    /\ premultiplied = TRUE
    /\ mtArgs = [targetColor |-> RGBColor(0, 0, 0), tolerance |-> 0,
                 smoothness |-> 0]
    /\ passes = 0
    /\ detected = NoColor

Init == PureIdle /\ AppInit

Next ==
    \/ \E url \in Urls : HandleFileUpload(url)
    \/ \E i \in 1..MaxLoads : FileLoaded(i)
    \/ \E i \in 1..MaxLoads : ProcessLoaded(i)
    \/ \E i \in 1..MaxLoads : LoadFailed(i)
    \/ \E p \in PointerPoints : MouseMove(p)
    \/ \E p \in PointerPoints : MouseDown(p)
    \/ MouseUp
    \/ MouseLeave
    \/ MouseEnter
    \/ ToggleEditMode
    \/ \E size \in BrushSizes : SetBrushSize(size)
    \/ ResetStrokes
    \/ ApplySettings
    \/ ClearCanvas

Spec == Init /\ [][Next]_vars

----------------------------------------------------------------------------
(* SpecFlows: the App component's asynchronous flows (the upload, the AI   *)
(* enhancement, the compositing passes) interleaved with painting at one   *)
(* position and with the tolerance slider.  The brush slider stays at its  *)
(* default, the pointer stays over the preview pane, every image decodes,  *)
(* and the reset, apply and clear buttons are left alone.                  *)

\* the pointer position of the flows: on the displayed image
FlowPoints == {<<100, 50>>}

\* the flows are followed while the overlay holds fewer than FlowStrokes
\* strokes
FlowStrokes == 1

\* onMouseMove and onMouseDown of the preview pane, up to the first stroke
FlowMouseMove(p) ==
    /\ Len(maskCanvas.strokes) < FlowStrokes
    /\ MouseMove(p)

FlowMouseDown(p) ==
    /\ Len(maskCanvas.strokes) < FlowStrokes
    /\ MouseDown(p)

FlowNext ==
    \/ \E url \in Urls : HandleFileUpload(url)
    \/ \E i \in 1..MaxLoads : FileLoaded(i)
    \/ \E i \in 1..MaxLoads : ProcessLoaded(i)
    \/ \E p \in FlowPoints : FlowMouseMove(p)
    \/ \E p \in FlowPoints : FlowMouseDown(p)
    \/ MouseUp
    \/ ToggleEditMode
    \/ \E t \in Tolerances : SetTolerance(t)
    \/ RunAiUpscale
    \/ AiServiceCalled
    \/ AiThrows
    \/ AiNoImage
    \/ \E url \in AiUrls : AiImage(url)
    \/ \E i \in 1..MaxLoads : AiImageLoaded(i)

SpecFlows == Init /\ [][FlowNext]_vars

----------------------------------------------------------------------------
(* SpecAi: the flows of the App component with the manual erase mode left  *)
(* off: the upload, the AI enhancement, the compositing passes and the     *)
(* tolerance slider.                                                       *)

AiNext ==
    \/ \E url \in Urls : HandleFileUpload(url)
    \/ \E i \in 1..MaxLoads : FileLoaded(i)
    \/ \E i \in 1..MaxLoads : ProcessLoaded(i)
    \/ \E i \in 1..MaxLoads : LoadFailed(i)
    \/ ApplySettings
    \/ ClearCanvas
    \/ \E t \in Tolerances : SetTolerance(t)
    \/ RunAiUpscale
    \/ AiServiceCalled
    \/ AiThrows
    \/ AiNoImage
    \/ \E url \in AiUrls : AiImage(url)
    \/ \E i \in 1..MaxLoads : AiImageLoaded(i)

SpecAi == Init /\ [][AiNext]_vars

----------------------------------------------------------------------------
(* SpecSettings: the settings panel of the App component: the upload, the  *)
(* two sliders, the refresh button and the passes they start.              *)

SettingsNext ==
    \/ \E url \in Urls : HandleFileUpload(url)
    \/ \E i \in 1..MaxLoads : FileLoaded(i)
    \/ \E i \in 1..MaxLoads : ProcessLoaded(i)
    \/ ApplySettings
    \/ \E t \in Tolerances : SetTolerance(t)
    \/ \E sm \in Smoothnesses : SetSmoothness(sm)

SpecSettings == Init /\ [][SettingsNext]_vars

----------------------------------------------------------------------------
(* SpecLive: the upload, the passes and the refresh button of the App      *)
(* component, with the browser's one promise about an image load: a load   *)
(* in flight ends, in a load event or in an error.  The user is promised   *)
(* nothing: no button has to be pressed.                                   *)

LiveNext ==
    \/ \E url \in Urls : HandleFileUpload(url)
    \/ \E i \in 1..MaxLoads : FileLoaded(i)
    \/ \E i \in 1..MaxLoads : ProcessLoaded(i)
    \/ \E i \in 1..MaxLoads : LoadFailed(i)
    \/ ApplySettings
    \/ ClearCanvas
    \/ \E t \in Tolerances : SetTolerance(t)

\* some load in flight ends
LoadEnds ==
    \E i \in 1..MaxLoads : LoadFailed(i) \/ FileLoaded(i) \/ ProcessLoaded(i)

SpecLive == Init /\ [][LiveNext]_vars /\ WF_vars(LoadEnds)

----------------------------------------------------------------------------
(* The App component of src/App.tsx, the version without the eraser.  It   *)
(* keeps ImageState, the options and the two busy flags; the variables of  *)
(* the eraser (the overlay, the edit mode, the pointer) are not part of it *)
(* and stay as they start.  processImage always gets its URL and options   *)
(* from the caller, and the callers put a placeholder ImageState in place  *)
(* before the image has loaded.                                            *)

\* the files the user may pick
TsxUrls == Urls \cup AiUrls

\* setImage({ originalUrl: url, processedUrl: null, width: 0, height: 0 })
TsxPlaceholder(url) ==
    [originalUrl |-> url, processedUrl |-> null, width |-> 0, height |-> 0]

\* processImage(imgUrl, currentOptions) up to img.src = imgUrl: an image
\* load in flight.  prior remembers the ImageState of the render in which
\* the handler that asked for the pass ran; the code keeps no such copy.
TsxProcessLoad(url, opts, prior) ==
    [kind |-> "process", url |-> url, opts |-> Snapshot(opts),
     explicit |-> TRUE, prior |-> prior]

\* handleFileUpload: the placeholder, then
\* processImage(url, {...options, autoDetect: true}).  The file input is
\* rendered while there is no image.
TsxHandleFileUpload(url) ==
    /\ image = null
    /\ Len(loads) < MaxLoads
    /\ image' = TsxPlaceholder(url)
    /\ isProcessing' = TRUE
    /\ loads' = Append(loads,
                       TsxProcessLoad(url,
                                      [options EXCEPT !.autoDetect = TRUE],
                                      image))
    /\ UNCHANGED <<pureVars, ai>>
    /\ UNCHANGED <<options, isAiUpscaling, isEditMode, isDrawing, cursorPos,
                   maskCanvas, originalImgRef>>

\* img.onload of processImage: the detection whenever currentOptions says
\* so, makeTransparent on the image alone, and the functional setImage that
\* writes the result into whatever ImageState is current
TsxProcessLoaded(i) ==
    /\ i \in 1..Len(loads)
    /\ loads[i].kind = "process"
    /\ LET ld == loads[i]
           target == IF ld.opts.autoDetect
                     THEN detectBackgroundColor(ImageRaster(ld.url))
                     ELSE ld.opts.targetColor
       IN  /\ options' = IF ld.opts.autoDetect
                         THEN [options EXCEPT !.targetColor = target]
                         ELSE options
           /\ image' =
                IF image = null THEN null
                ELSE [image EXCEPT
                        !.processedUrl =
                            Composite(ld.url,
                                      initMaskCanvas(NaturalWidth(ld.url),
                                                     NaturalHeight(ld.url)),
                                      target, ld.opts),
                        !.width = NaturalWidth(ld.url),
                        !.height = NaturalHeight(ld.url)]
           /\ isProcessing' = FALSE
           /\ loads' = RemoveAt(loads, i)
    /\ UNCHANGED <<pureVars, ai>>
    /\ UNCHANGED <<isAiUpscaling, isEditMode, isDrawing, cursorPos,
                   maskCanvas, originalImgRef>>

\* the image of a pass fails to load or to decode: img.onload never runs
\* and there is no onerror handler
TsxLoadFailed(i) ==
    /\ i \in 1..Len(loads)
    /\ loads' = RemoveAt(loads, i)
    /\ UNCHANGED <<pureVars, ai>>
    /\ UNCHANGED <<image, options, isProcessing, isAiUpscaling, isEditMode,
                   isDrawing, cursorPos, maskCanvas, originalImgRef>>

\* handleApplySettings: processImage(image.originalUrl,
\* {...options, autoDetect: false}); the button is disabled while
\* !image || isProcessing
TsxHandleApplySettings ==
    /\ image # null
    /\ ~isProcessing
    /\ Len(loads) < MaxLoads
    /\ isProcessing' = TRUE
    /\ loads' = Append(loads,
                       TsxProcessLoad(image.originalUrl,
                                      [options EXCEPT !.autoDetect = FALSE],
                                      image))
    /\ UNCHANGED <<pureVars, ai>>
    /\ UNCHANGED <<image, options, isAiUpscaling, isEditMode, isDrawing,
                   cursorPos, maskCanvas, originalImgRef>>

\* the clear button: setImage(null)
TsxClearCanvas ==
    /\ image # null
    /\ image' = null
    /\ UNCHANGED <<pureVars, ai>>
    /\ UNCHANGED <<options, isProcessing, isAiUpscaling, isEditMode,
                   isDrawing, cursorPos, maskCanvas, originalImgRef, loads>>

\* runAiUpscale when the answer holds an image part: the placeholder, then
\* processImage(newImageUrl, {...options, autoDetect: true}) with the
\* options of the render in which the button was pressed; finally clears
\* isAiUpscaling
TsxAiImage(url) ==
    /\ ai.stage = "pending"
    /\ ai.calls = 1
    /\ Len(loads) < MaxLoads
    /\ image' = TsxPlaceholder(url)
    /\ isProcessing' = TRUE
    /\ loads' = Append(loads,
                       TsxProcessLoad(url,
                                      [ai.opts EXCEPT !.autoDetect = TRUE],
                                      image))
    /\ ai' = [AiIdle EXCEPT !.calls = ai.calls, !.outcome = "image"]
    /\ isAiUpscaling' = FALSE
    /\ UNCHANGED pureVars
    /\ UNCHANGED <<options, isEditMode, isDrawing, cursorPos, maskCanvas,
                   originalImgRef>>

\* SpecAppTsx: the flows of src/App.tsx with the settings panel left
\* alone (SpecAppTsxSettings below has it).
\* runAiUpscale is the same there up to the branch that takes the answer's
\* image: its start, the service call and its two failures are the
\* actions above.
TsxNext ==
    \/ \E url \in TsxUrls : TsxHandleFileUpload(url)
    \/ \E i \in 1..MaxLoads : TsxProcessLoaded(i)
    \/ \E i \in 1..MaxLoads : TsxLoadFailed(i)
    \/ TsxHandleApplySettings
    \/ TsxClearCanvas
    \/ RunAiUpscale
    \/ AiServiceCalled
    \/ AiThrows
    \/ AiNoImage
    \/ \E url \in AiUrls : TsxAiImage(url)

SpecAppTsx == Init /\ [][TsxNext]_vars

\* the tolerance slider: setOptions({...options, tolerance})
TsxSetTolerance(t) ==
    /\ options' = [options EXCEPT !.tolerance = t]
    /\ UNCHANGED <<pureVars, ai>>
    /\ UNCHANGED <<image, isProcessing, isAiUpscaling, isEditMode, isDrawing,
                   cursorPos, maskCanvas, originalImgRef, loads>>

\* the smoothness slider: setOptions({...options, smoothness})
TsxSetSmoothness(sm) ==
    /\ options' = [options EXCEPT !.smoothness = sm]
    /\ UNCHANGED <<pureVars, ai>>
    /\ UNCHANGED <<image, isProcessing, isAiUpscaling, isEditMode, isDrawing,
                   cursorPos, maskCanvas, originalImgRef, loads>>

\* the value of the colour input: "#" and six hexadecimal digits, here the
\* digits' values; this one is #1e3c5a
PickedHexes == {<<1, 14, 3, 12, 5, 10>>}

\* hexToRgb: two digits a channel; black when the pattern does not match
hexToRgb(hex) ==
    IF Len(hex) = 6 /\ \A k \in 1..6 : hex[k] \in 0..15
    THEN RGBColor(16 * hex[1] + hex[2], 16 * hex[3] + hex[4],
                  16 * hex[5] + hex[6])
    ELSE RGBColor(0, 0, 0)

\* the colour picker: setOptions({...options, targetColor:
\* hexToRgb(value), autoDetect: false})
TsxSetTargetColor(hex) ==
    /\ options' = [options EXCEPT !.targetColor = hexToRgb(hex),
                                  !.autoDetect = FALSE]
    /\ UNCHANGED <<pureVars, ai>>
    /\ UNCHANGED <<image, isProcessing, isAiUpscaling, isEditMode, isDrawing,
                   cursorPos, maskCanvas, originalImgRef, loads>>

\* SpecAppTsxSettings: the settings panel of src/App.tsx: the upload, the
\* sliders, the colour picker, the apply button and the passes they start.
TsxSettingsNext ==
    \/ \E url \in Urls : TsxHandleFileUpload(url)
    \/ \E i \in 1..MaxLoads : TsxProcessLoaded(i)
    \/ TsxHandleApplySettings
    \/ \E t \in Tolerances : TsxSetTolerance(t)
    \/ \E sm \in Smoothnesses : TsxSetSmoothness(sm)
    \/ \E hex \in PickedHexes : TsxSetTargetColor(hex)

SpecAppTsxSettings == Init /\ [][TsxSettingsNext]_vars

----------------------------------------------------------------------------
(* SpecCompositor: makeTransparent applied, in place, to a canvas.         *)

\* the alpha of the pixel of a 1 x 1 input raster: transparent or opaque
InputAlphas == {0, ByteMax}

\* the input rasters: 1 x 1, a pixel of any colour, transparent or opaque;
\* and 2 x 1, an opaque pixel and a transparent pixel of any two colours.
\* The canvas is of either kind, and the raster is one it can hold: on a
\* premultiplied canvas a transparent pixel is black.
CompositorInit ==
    /\ \/ \E c \in Colors, a \in InputAlphas :
             srcRaster = Raster(1, 1, <<Pixel(c.r, c.g, c.b, a)>>)
       \/ \E c \in Colors, e \in Colors :
             srcRaster = Raster(2, 1, <<Pixel(c.r, c.g, c.b, ByteMax),
                                        Pixel(e.r, e.g, e.b, 0)>>)
    /\ premultiplied \in BOOLEAN
    /\ canvasHolds(srcRaster, premultiplied)
    /\ ctxRaster = srcRaster
    /\ prevRaster = srcRaster
    /\ earlierRaster = srcRaster
    /\ mtArgs \in [targetColor : TargetColors, tolerance : 0..MaxTol,
                   smoothness : 0..MaxSmooth]
    /\ passes = 0
    /\ detected = NoColor
    /\ AppInit

\* one call of makeTransparent on the canvas: getImageData reads what the
\* canvas kept of the raster last put on it, the loop rewrites it, and
\* putImageData puts it back
MakeTransparentPass ==
    /\ passes < MaxPasses
    /\ \E read \in putThenGetImageData(ctxRaster, premultiplied) :
           /\ prevRaster' = read
           /\ ctxRaster' = makeTransparent(read, mtArgs.targetColor,
                                           mtArgs.tolerance,
                                           mtArgs.smoothness)
    /\ earlierRaster' = ctxRaster
    /\ passes' = passes + 1
    /\ UNCHANGED <<srcRaster, premultiplied, mtArgs, detected, appVars>>

CompositorNext == MakeTransparentPass

SpecCompositor == CompositorInit /\ [][CompositorNext]_vars

----------------------------------------------------------------------------
(* SpecDetector: detectBackgroundColor applied to a raster.                *)

\* the sizes of the input rasters, <<width, height>>
DetectorSizes == {<<1, 1>>, <<2, 1>>, <<1, 2>>, <<2, 2>>, <<3, 1>>, <<3, 2>>}

\* a two-colour icon: an opaque background colour and a transparent ink,
\* every pixel one or the other
IconRaster(sz, bg, fg, ink) ==
    Raster(sz[1], sz[2],
           [i \in 1..(sz[1] * sz[2]) |->
               IF i \in ink THEN Pixel(fg.r, fg.g, fg.b, 0)
                            ELSE Pixel(bg.r, bg.g, bg.b, ByteMax)])

DetectorInit ==
    /\ \E sz \in DetectorSizes, bg \in Colors, fg \in Colors :
         \E ink \in SUBSET (1..(sz[1] * sz[2])) :
           srcRaster = IconRaster(sz, bg, fg, ink)
    /\ premultiplied \in BOOLEAN
    /\ canvasHolds(srcRaster, premultiplied)
    /\ ctxRaster = srcRaster
    /\ prevRaster = srcRaster
    /\ earlierRaster = srcRaster
    /\ mtArgs = [targetColor |-> RGBColor(0, 0, 0), tolerance |-> 0,
                 smoothness |-> 0]
    /\ passes = 0
    /\ detected = NoColor
    /\ AppInit

DetectBackground ==
    /\ detected = NoColor
    /\ detected' = detectBackgroundColor(ctxRaster)
    /\ UNCHANGED <<srcRaster, ctxRaster, prevRaster, earlierRaster,
                   premultiplied, mtArgs, passes, appVars>>

DetectorNext == DetectBackground

SpecDetector == DetectorInit /\ [][DetectorNext]_vars

----------------------------------------------------------------------------
(* Claims about makeTransparent, checked under SpecCompositor.  After a    *)
(* pass, prevRaster is the raster the pass read and ctxRaster the raster   *)
(* it wrote; earlierRaster is the raster the pass before it wrote.         *)

PixelIndexes == 1..Len(prevRaster.data)

\* the squared distance of pixel i of the raster read to the target colour
PassDistSq(i) == getColorDistanceSq(prevRaster.data[i], mtArgs.targetColor)

\* the smoothness with 0 read as 1
CoercedSmoothness == IF mtArgs.smoothness = 0 THEN 1 ELSE mtArgs.smoothness

SameRGB(p, q) == p.r = q.r /\ p.g = q.g /\ p.b = q.b

C2_Original ==
    passes >= 1 =>
        \A i \in PixelIndexes :
            PassDistSq(i) > Sq(mtArgs.tolerance + mtArgs.smoothness) =>
                ctxRaster.data[i].a = ByteMax

\* C2 amended: after a pass, every pixel with
\* d > tolerance + max(smoothness, 1) has alpha 255.
C2_OpaqueBeyondRamp ==
    passes >= 1 =>
        \A i \in PixelIndexes :
            PassDistSq(i) > Sq(mtArgs.tolerance + CoercedSmoothness) =>
                ctxRaster.data[i].a = ByteMax

\* C2 witness: a pass with smoothness 0 has made a transparent pixel beyond
\* tolerance + 1 opaque.
C2_Witness ==
    /\ passes >= 1
    /\ mtArgs.smoothness = 0
    /\ \E i \in PixelIndexes :
        /\ PassDistSq(i) > Sq(mtArgs.tolerance + 1)
        /\ prevRaster.data[i].a = 0
        /\ ctxRaster.data[i].a = ByteMax

\* C3 as stated: after a pass, every pixel with d = tolerance + smoothness
\* has alpha 255.
C3_Original ==
    passes >= 1 =>
        \A i \in PixelIndexes :
            PassDistSq(i) = Sq(mtArgs.tolerance + mtArgs.smoothness) =>
                ctxRaster.data[i].a = ByteMax

\* C3 amended: after a pass, every pixel with
\* d = tolerance + max(smoothness, 1) has alpha 255.
C3_OpaqueAtRampEnd ==
    passes >= 1 =>
        \A i \in PixelIndexes :
            PassDistSq(i) = Sq(mtArgs.tolerance + CoercedSmoothness) =>
                ctxRaster.data[i].a = ByteMax

\* C3 witness: a pass with tolerance > 0 has made a transparent pixel at the
\* upper end of the ramp opaque.
C3_Witness ==
    /\ passes >= 1
    /\ mtArgs.tolerance > 0
    /\ \E i \in PixelIndexes :
        /\ PassDistSq(i) = Sq(mtArgs.tolerance + CoercedSmoothness)
        /\ prevRaster.data[i].a = 0
        /\ ctxRaster.data[i].a = ByteMax

\* C4: after a pass, of any two pixels the one nearer to the target colour
\* has the smaller or the same alpha.
C4_AlphaMonotone ==
    passes >= 1 =>
        \A i \in PixelIndexes, j \in PixelIndexes :
            PassDistSq(i) <= PassDistSq(j) =>
                ctxRaster.data[i].a <= ctxRaster.data[j].a

\* C4 witness: two pixels strictly inside the ramp band, the farther one
\* with the strictly larger alpha.
C4_Witness ==
    /\ passes >= 1
    /\ \E i \in PixelIndexes, j \in PixelIndexes :
        /\ Sq(mtArgs.tolerance) < PassDistSq(i)
        /\ PassDistSq(i) < PassDistSq(j)
        /\ PassDistSq(j) < Sq(mtArgs.tolerance + CoercedSmoothness)
        /\ 0 < ctxRaster.data[i].a
        /\ ctxRaster.data[i].a < ctxRaster.data[j].a
        /\ ctxRaster.data[j].a < ByteMax

\* C5: a pass with smoothness 0 writes the raster that makeTransparent
\* with smoothness 1 writes from the same input, and the ramp's divisor is
\* not 0.
C5_SmoothnessZeroIsOne ==
    (passes >= 1 /\ mtArgs.smoothness = 0) =>
        /\ ctxRaster = makeTransparent(prevRaster, mtArgs.targetColor,
                                       mtArgs.tolerance, 1)
        /\ smoothRange(mtArgs.smoothness) # 0

\* C5 witness: a pass with smoothness 0 has written a partial alpha.
C5_Witness ==
    /\ passes >= 1
    /\ mtArgs.smoothness = 0
    /\ \E i \in PixelIndexes :
        /\ 0 < ctxRaster.data[i].a
        /\ ctxRaster.data[i].a < ByteMax

\* pixel p lies strictly inside the ramp band of the pass's arguments
InRampBand(p) ==
    LET d2 == getColorDistanceSq(p, mtArgs.targetColor)
    IN  /\ Sq(mtArgs.tolerance) < d2
        /\ d2 < Sq(mtArgs.tolerance + CoercedSmoothness)

NoRampPixel(raster) ==
    \A i \in 1..Len(raster.data) : ~InRampBand(raster.data[i])

\* C6: when no pixel of the raster lies in the ramp band, a second pass
\* with the same arguments over the result of the first (the canvas the
\* first pass put its raster on) leaves every pixel as the first pass
\* wrote it: R, G, B and alpha.
C6_Idempotent ==
    (passes >= 2 /\ NoRampPixel(srcRaster)) => ctxRaster = earlierRaster

----------------------------------------------------------------------------
(* Claims about detectBackgroundColor, checked under SpecDetector.         *)

\* the sum of channel ch over the pixels at (0,0), (width-1,0),
\* (0,height-1), (width-1,height-1) and (floor(width/2),0)
FiveSampleSum(raster, ch) ==
    LET w == raster.width
        h == raster.height
    IN  raster.data[1][ch] + raster.data[w][ch]
          + raster.data[(h - 1) * w + 1][ch] + raster.data[h * w][ch]
          + raster.data[(w \div 2) + 1][ch]

IsUniform(raster) ==
    \A i \in 1..Len(raster.data) : SameRGB(raster.data[i], raster.data[1])

\* C7: the detected colour is, per channel, the integer nearest to the
\* average of the five sampled pixels (at distance below 1/2 of it), whatever
\* their alpha; on a raster of one colour it is that colour.
C7_DetectAverages ==
    detected # NoColor =>
        /\ \A ch \in {"r", "g", "b"} :
              /\ detected[ch] \in Int
              /\ 2 * Abs(5 * detected[ch] - FiveSampleSum(srcRaster, ch)) < 5
        /\ IsUniform(srcRaster) => SameRGB(detected, srcRaster.data[1])

\* C7 witness: detection on a 3 x 2 raster whose top-middle pixel is
\* transparent ink on an opaque background, where the red average is rounded
\* upwards.
C7_Witness ==
    /\ detected # NoColor
    /\ srcRaster.width = 3
    /\ srcRaster.height = 2
    /\ srcRaster.data[2].a = 0
    /\ srcRaster.data[1].a = ByteMax
    /\ ~SameRGB(srcRaster.data[2], srcRaster.data[1])
    /\ 5 * detected.r > FiveSampleSum(srcRaster, "r")

----------------------------------------------------------------------------
(* Claims about the mask overlay input, checked under Spec.                *)

\* the step is a pointer-move or a pointer-down at p
PointerEventAt(p) == MouseMove(p) \/ MouseDown(p)

\* p lies in [0, displayWidth] x [0, displayHeight] of the displayed image
InDisplayedBounds(p) ==
    /\ 0 <= p[1] /\ p[1] <= DisplayWidth(image.originalUrl)
    /\ 0 <= p[2] /\ p[2] <= DisplayHeight(image.originalUrl)

\* the quotient q equals num / den
QuotIs(q, num, den) == q.den > 0 /\ q.num * den = num * q.den

\* C8: while painting (edit mode, an image, isDrawing), a pointer event
\* inside the displayed bounds adds exactly one disc to the overlay, of the
\* current target colour, centred at (relX * scaleX, relY * scaleY) with
\* radius brushSize * scaleX / 2, scaleX and scaleY being the overlay
\* canvas's width and height over the displayed width and height; the discs
\* already there and the overlay's size stay.
C8_PaintsMappedDisc ==
    [][\A p \in PointerPoints :
        (/\ PointerEventAt(p)
         /\ isEditMode /\ image # null /\ isDrawing
         /\ InDisplayedBounds(p))
        => LET n == Len(maskCanvas.strokes)
               dw == DisplayWidth(image.originalUrl)
               dh == DisplayHeight(image.originalUrl)
               disc == maskCanvas'.strokes[n + 1]
           IN  /\ Len(maskCanvas'.strokes) = n + 1
               /\ SubSeq(maskCanvas'.strokes, 1, n) = maskCanvas.strokes
               /\ maskCanvas'.width = maskCanvas.width
               /\ maskCanvas'.height = maskCanvas.height
               /\ disc.color = options.targetColor
               /\ QuotIs(disc.x, p[1] * maskCanvas.width, dw)
               /\ QuotIs(disc.y, p[2] * maskCanvas.height, dh)
               /\ QuotIs(disc.radius, options.brushSize * maskCanvas.width,
                         2 * dw)
      ]_vars

\* C8 witness: a 200 x 200 overlay shown at 150 x 150, centred in the pane
\* (24 from its left, 125 from its top), holds the disc painted with brush
\* size 20 at display position (100, 50): centre (400/3, 200/3), radius
\* 40/3.
C8_Witness ==
    /\ isEditMode /\ isDrawing /\ image # null
    /\ maskCanvas.width = 200 /\ maskCanvas.height = 200
    /\ cursorPos = [x |-> 124, y |-> 175, visible |-> TRUE]
    /\ Len(maskCanvas.strokes) >= 1
    /\ LET disc == maskCanvas.strokes[Len(maskCanvas.strokes)]
       IN  /\ disc.x = [num |-> 400, den |-> 3]
           /\ disc.y = [num |-> 200, den |-> 3]
           /\ disc.radius = [num |-> 40, den |-> 3]

\* C9: a pointer event outside the displayed bounds leaves the overlay as it
\* is and starts no compositing pass.
C9_OutsideIgnored ==
    [][\A p \in PointerPoints :
        (/\ PointerEventAt(p)
         /\ image # null
         /\ ~InDisplayedBounds(p))
        => /\ maskCanvas' = maskCanvas
           /\ loads' = loads
           /\ isProcessing' = isProcessing
           /\ image' = image
      ]_vars

\* C9 witness: painting is on, a disc has been painted, and the last pointer
\* event was at (-5, 20), left of the displayed image; no pass is pending.
C9_Witness ==
    /\ isEditMode /\ isDrawing /\ image # null
    /\ cursorPos = [x |-> 19, y |-> 145, visible |-> TRUE]
    /\ Len(maskCanvas.strokes) = 1
    /\ loads = <<>>
    /\ ~isProcessing

\* C10: in edit mode with an image, a pointer-down inside the displayed
\* bounds adds a disc to the overlay in that very step.
C10_ClickPaints ==
    [][\A p \in PointerPoints :
        (/\ MouseDown(p)
         /\ isEditMode /\ image # null
         /\ InDisplayedBounds(p))
        => Len(maskCanvas'.strokes) = Len(maskCanvas.strokes) + 1
      ]_vars

----------------------------------------------------------------------------
(* Claims about the edit mode and the overlay.                             *)

\* C11: isDrawing turns true only by a pointer-down inside the displayed
\* bounds while edit mode is on; every pointer-up and every pointer-leave
\* turns it false; no other event changes it.
C11_PaintingStateMachine ==
    [][/\ (~isDrawing /\ isDrawing')
            => /\ isEditMode
               /\ \E p \in PointerPoints :
                     MouseDown(p) /\ InDisplayedBounds(p)
       /\ (MouseUp \/ MouseLeave) => ~isDrawing'
       /\ (isDrawing /\ ~isDrawing') => (MouseUp \/ MouseLeave)
      ]_vars

\* C12: when the pass that a paint action asked for completes, with the
\* disc just painted still on top of the overlay, the pixels the disc
\* covers have alpha 0 in the output.
C12_StrokeIsTransparent ==
    [][\A i \in 1..MaxLoads :
        (/\ ProcessLoaded(i)
         /\ "disc" \in DOMAIN loads[i]
         /\ maskCanvas.strokes # <<>>
         /\ maskCanvas.strokes[Len(maskCanvas.strokes)] = loads[i].disc)
        => CompositeAlpha(loads[i].disc.color, image'.processedUrl) = 0
      ]_vars

\* C13: a pass asked for with autoDetect true classifies against
\* detectBackgroundColor of its source and stores that colour in
\* options.targetColor; a pass asked for with autoDetect false classifies
\* against the targetColor of the options it was given.
C13_AutoDetectGate ==
    [][\A i \in 1..MaxLoads :
        ProcessLoaded(i)
        => LET ld == loads[i]
               found == detectBackgroundColor(ImageRaster(ld.url))
           IN  IF ld.opts.autoDetect
               THEN /\ image'.processedUrl.targetColor = found
                    /\ options'.targetColor = found
               ELSE image'.processedUrl.targetColor = ld.opts.targetColor
      ]_vars

\* the step calls processImage and the call starts a load, which is the
\* last in flight: the onload of a file or of an AI image, whose load it
\* replaces, or a handler of the pane or of a button, which adds one
CallsProcessImage ==
    \/ \E i \in 1..MaxLoads : FileLoaded(i) \/ AiImageLoaded(i)
    \/ /\ \/ ApplySettings
          \/ ResetStrokes
          \/ \E p \in PointerPoints : MouseMove(p)
       /\ Len(loads') > Len(loads)

\* C14: a pass classifies with the tolerance, the smoothness and the
\* targetColor that the options held when processImage was called for it:
\* the values the call binds for the pass are those of the options state
\* at the call, and the pass, when its image has loaded, classifies with
\* the values bound.  A pass that detects the background takes its target
\* from the detector.
C14_SnapshotAtInvocation ==
    [][/\ CallsProcessImage
          => LET ld == loads'[Len(loads')]
             IN  /\ ld.opts.tolerance = options.tolerance
                 /\ ld.opts.smoothness = options.smoothness
                 /\ ld.opts.targetColor = options.targetColor
       /\ \A i \in 1..MaxLoads :
            ProcessLoaded(i)
            => LET ld == loads[i]
                   pass == image'.processedUrl
               IN  /\ pass.tolerance = ld.opts.tolerance
                   /\ pass.smoothness = ld.opts.smoothness
                   /\ (ld.opts.autoDetect /\ ~ld.explicit)
                         \/ pass.targetColor = ld.opts.targetColor
      ]_vars

\* the step keeps every stroke of the overlay, in place, and its size
KeepsStrokes ==
    /\ maskCanvas'.width = maskCanvas.width
    /\ maskCanvas'.height = maskCanvas.height
    /\ Len(maskCanvas'.strokes) >= Len(maskCanvas.strokes)
    /\ SubSeq(maskCanvas'.strokes, 1, Len(maskCanvas.strokes))
          = maskCanvas.strokes

\* C15: toggling edit mode, changing options, painting and completing a
\* pass keep every stroke of the overlay and its size; a step that removes
\* a stroke or resizes the overlay is the reset button's or the load of a
\* new source image (an uploaded file, an AI-enhanced image).
C15_StrokesAccumulate ==
    [][/\ (\/ ToggleEditMode
           \/ \E size \in BrushSizes : SetBrushSize(size)
           \/ \E t \in Tolerances : SetTolerance(t)
           \/ \E p \in PointerPoints : MouseMove(p) \/ MouseDown(p)
           \/ \E i \in 1..MaxLoads : ProcessLoaded(i))
          => KeepsStrokes
       /\ \/ KeepsStrokes
          \/ ResetStrokes
          \/ \E i \in 1..MaxLoads : FileLoaded(i) \/ AiImageLoaded(i)
      ]_vars

\* C15 witness: a disc painted with brush size 20 and a disc painted over
\* it with brush size 5 are both on the overlay, in the order they were
\* painted, after the passes that composited them and leaving edit mode.
C15_Witness ==
    /\ image # null
    /\ ~isEditMode
    /\ Len(maskCanvas.strokes) = 2
    /\ maskCanvas.strokes[1].radius = [num |-> 40, den |-> 3]
    /\ maskCanvas.strokes[2].radius = [num |-> 10, den |-> 3]
    /\ image.processedUrl.mask = maskCanvas
    /\ loads = <<>>

\* C16: under every interleaving of pointer events with the image loads, the
\* first compositing pass on a newly loaded source image (the pass that the
\* onload handler of the upload or of the AI replacement started) composites
\* an overlay that is fully empty and has that image's width and height.
C16_FirstPassOnEmptyOverlay ==
    [][\A i \in 1..MaxLoads :
          (ProcessLoaded(i) /\ loads[i].explicit)
             => image'.processedUrl.mask =
                   initMaskCanvas(NaturalWidth(loads[i].url),
                                  NaturalHeight(loads[i].url))]_vars

----------------------------------------------------------------------------
(* Claims about the AI enhancement                                         *)

\* the outcomes of a request that failed: an await rejected, or the answer
\* held no image part
AiFailures == {"threw", "noImage"}

\* C17: a failing AI enhancement request leaves ImageState, the overlay and
\* the options as they are: no step of the request (its start, the service
\* call, its failure) changes them or starts an image load; the step on
\* which the request fails clears isAiUpscaling and ends the request with
\* the service called at most once; and after the failure the service is
\* not called until a new request is started.
C17_AiFailureLeavesState ==
    [][/\ (ai' # ai /\ ai'.outcome \in AiFailures \cup {"none"})
             => UNCHANGED <<image, maskCanvas, options, loads>>
       /\ (ai.stage = "pending" /\ ai'.outcome \in AiFailures)
             => /\ ~isAiUpscaling'
                /\ ai'.stage = "idle"
                /\ ai'.calls <= 1
       /\ (ai.stage = "idle" /\ ai.outcome \in AiFailures /\ ai' # ai)
             => /\ ai'.stage = "pending"
                /\ ai'.calls = 0]_vars

\* a request on a processed image failed at the service call
C17_Witness ==
    /\ ai.stage = "idle"
    /\ ai.outcome = "threw"
    /\ ai.calls = 1
    /\ ~isAiUpscaling
    /\ image # null
    /\ image.processedUrl.source = image.originalUrl
    /\ maskCanvas = initMaskCanvas(image.width, image.height)
    /\ loads = <<>>

\* C18: every AI enhancement request that ended in a failure, whether an
\* await rejected or the answer held no usable image, has been reported to
\* the user exactly once.
C18_FailureReportedOnce ==
    (ai.stage = "idle" /\ ai.outcome \in AiFailures) => ai.alerts = 1

----------------------------------------------------------------------------
(* Claims about failed loads and about ImageState                          *)

\* C19: when the source image of a compositing request fails to load or to
\* decode, nothing is composited and ImageState is what it was before the
\* request was made; the failure itself changes neither ImageState nor the
\* overlay nor the options.
C19_DecodeFailureLeavesPriorState ==
    [][\A i \in 1..MaxLoads :
          TsxLoadFailed(i)
             => /\ UNCHANGED <<image, maskCanvas, options>>
                /\ image' = loads[i].prior]_vars

\* C20: processedUrl is absent unless a pass has completed for the current
\* source image; width and height are 0 while it is absent; when it is
\* present, width and height are the decoded dimensions of the raster it
\* was produced from.
C20_ImageStateInvariant ==
    image # null =>
        IF image.processedUrl = null
        THEN image.width = 0 /\ image.height = 0
        ELSE /\ image.processedUrl.source = image.originalUrl
             /\ image.width = NaturalWidth(image.processedUrl.source)
             /\ image.height = NaturalHeight(image.processedUrl.source)

----------------------------------------------------------------------------
(* Claims about the order and the end of the compositing passes            *)

\* C21: compositing results are applied in request order: a pass that was
\* asked for earlier and completes after a pass asked for later does not
\* overwrite ImageState.
C21_AppliedInRequestOrder ==
    [][\A i \in 1..MaxLoads :
          (ProcessLoaded(i) /\ loads[i].late) => image' = image]_vars

\* C22: every compositing request that sets isProcessing is followed by a
\* state in which isProcessing is cleared, whatever the outcome of the
\* image load, so the refresh button is never disabled forever.
C22_ProcessingEventuallyCleared == isProcessing ~> ~isProcessing

============================================================================
